---------------------------- MODULE Spec2Model ----------------------------
(***************************************************************************)
(* A model of the asynchronous catalog scraper of src/cron.py: the         *)
(* orchestrator scrape_catalog, the detail fetcher fetch_product_details,  *)
(* the image acquirer download_image and the product image organizer      *)
(* download_images_for_product, together with the naming helpers they use. *)
(*                                                                         *)
(* Text is modelled as a sequence of one-character strings, so that the    *)
(* naming helpers (slugify, unique_folder, sanitize_filename_from_url) are *)
(* computed the way the code computes them.                                *)
(*                                                                         *)
(* Every coroutine is cut at its suspension points (network I/O, a full    *)
(* semaphore, gather); the code between two suspension points is one       *)
(* action.  The asyncio event loop runs ready callbacks in the order they  *)
(* were registered, so the tasks one gather creates take their first step  *)
(* in creation order, before any response is handled, and the waiters of a *)
(* semaphore are served first come, first served.  Responses arrive in any *)
(* order and with any outcome.                                             *)
(*                                                                         *)
(* Spec is one run of scrape_catalog and SpecRerun several runs on the     *)
(* same disk.  The helpers are also called on their own, for inputs a run  *)
(* of the model site does not produce: product_unique_id (SpecIdentity),   *)
(* parse_product_details (SpecGallery), extract_product_links (SpecLinks)  *)
(* and download_image on a disk that holds files already (SpecDownload).   *)
(* SpecIndex is the pagination of the index handler of src/main.py.        *)
(***************************************************************************)
EXTENDS Integers, Sequences, FiniteSets, TLC

(***************************************************************************)
(* Bounds of the model.                                                    *)
(***************************************************************************)
\* Number of product links the catalog page yields.
MaxLinks == 3
\* Number of image URLs on the pages of the catalog, all pages together.
MaxImages == 3
\* The same two numbers for the catalog that is scraped more than once.
MaxRerunLinks == 3
MaxRerunImages == 3
\* Capacity of the detail pool; src/cron.py:23 sets 8, scaled down here.
CONCURRENCY == 2
\* Capacity of the image pool; src/cron.py:24 sets 10, scaled down here.
IMAGE_CONCURRENCY == 2
\* Number of runs of scrape_catalog against the same catalog and disk.
MaxRuns == 2
\* Number of figures in the gallery of a product page parsed on its own.
MaxGallery == 4
\* The most anchors of product cards on a catalog page called on its own.
MaxAnchors == 4
\* The most products the display layer lists, and the highest page asked for.
MaxTotal == 22
MaxPage == 24

(***************************************************************************)
(* Characters and text.                                                    *)
(***************************************************************************)
LowerChars == {"a", "b", "c", "d", "e", "f", "g", "h", "i", "j", "l", "m", "o",
               "p", "q", "r", "s", "t", "u", "x"}
UpperChars == {"A", "H", "L", "P", "S", "T", "X"}
DigitChars == {"0", "1", "2", "3", "4", "5", "6", "7", "8", "9"}

\* str.lower() on one character.
LowerOf(c) ==
  CASE c = "S" -> "s"
    [] c = "A" -> "a"
    [] c = "L" -> "l"
    [] c = "H" -> "h"
    [] c = "P" -> "p"
    [] c = "T" -> "t"
    [] c = "X" -> "x"
    [] OTHER -> c

\* \w of Python's re: letters, digits and the underscore.
IsWord(c) == c \in LowerChars \cup UpperChars \cup DigitChars \cup {"_"}

\* \s of Python's re, and what str.split() splits on.
IsSpace(c) == c = " "

\* The decimal digits of a natural number, as text (str(idx), f"{idx}").
RECURSIVE Decimal(_)
Decimal(n) ==
  LET d == <<"0", "1", "2", "3", "4", "5", "6", "7", "8", "9">>[(n % 10) + 1]
  IN  IF n < 10 THEN <<d>> ELSE Decimal(n \div 10) \o <<d>>

\* Membership of a character in a named character class.  "space" is \s,
\* "slugdrop" is [^\w\- ], "hyphen" is "-", "dot" is ".", "slash" is "/" and
\* "unsafe" is [^\w\.\-].
InClass(cls, c) ==
  CASE cls = "space" -> IsSpace(c)
    [] cls = "slash" -> c = "/"
    [] cls = "hyphen" -> c = "-"
    [] cls = "slugdrop" -> ~(IsWord(c) \/ c = "-" \/ c = " ")
    [] cls = "unsafe" -> ~(IsWord(c) \/ c = "." \/ c = "-")
    [] cls = "dot" -> c = "."

\* s.lstrip(), s.rstrip() and s.strip() for a character class.
RECURSIVE LStrip(_, _)
LStrip(s, cls) ==
  IF s # <<>> /\ InClass(cls, Head(s)) THEN LStrip(Tail(s), cls) ELSE s

RECURSIVE RStrip(_, _)
RStrip(s, cls) ==
  IF s # <<>> /\ InClass(cls, s[Len(s)])
  THEN RStrip(SubSeq(s, 1, Len(s) - 1), cls) ELSE s

Strip(s, cls) == RStrip(LStrip(s, cls), cls)

\* re.sub(r"<class>+", rep, s): every maximal run of characters of the class
\* is replaced by the text rep.
RECURSIVE SubRuns(_, _, _)
SubRuns(s, cls, rep) ==
  IF s = <<>> THEN <<>>
  ELSE IF InClass(cls, Head(s))
       THEN rep \o SubRuns(LStrip(s, cls), cls, rep)
       ELSE <<Head(s)>> \o SubRuns(Tail(s), cls, rep)

\* [LowerOf(c) : c in s]
LowerText(s) == [i \in 1..Len(s) |-> LowerOf(s[i])]

(***************************************************************************)
(* slugify (src/cron.py:56-65).                                            *)
(***************************************************************************)
slugify(text, fallback) ==
  LET t0 == IF text = <<>> THEN fallback ELSE text
      \* " ".join(str(text).strip().split()).lower()
      t1 == LowerText(SubRuns(Strip(t0, "space"), "space", <<" ">>))
      \* re.sub(r"[^\w\- ]+", "", text)
      t2 == SubRuns(t1, "slugdrop", <<>>)
      \* re.sub(r"\s+", "-", text).strip("-")
      t3 == Strip(SubRuns(t2, "space", <<"-">>), "hyphen")
  IN  IF t3 = <<>> THEN fallback ELSE t3

(***************************************************************************)
(* unique_folder (src/cron.py:68-81): the first of name, name-1, name-2,   *)
(* ... that does not exist under the image root.  existing is the set of   *)
(* entries of the image root on disk.                                      *)
(***************************************************************************)
RECURSIVE ProbeFolder(_, _, _)
ProbeFolder(existing, name, idx) ==
  LET candidate == name \o <<"-">> \o Decimal(idx)
  IN  IF candidate \notin existing THEN candidate
      ELSE ProbeFolder(existing, name, idx + 1)

unique_folder(existing, name) ==
  IF name \notin existing THEN name ELSE ProbeFolder(existing, name, 1)

(***************************************************************************)
(* urllib.parse.urlparse, as far as the URLs of the model go: no ";" (path  *)
(* parameters), no "[" (IPv6 hosts) and no control characters occur.        *)
(***************************************************************************)
\* s.find of the first character that is in the set, Len(s) + 1 when none is.
RECURSIVE Find(_, _, _)
Find(s, set, from) ==
  IF from > Len(s) \/ s[from] \in set THEN from ELSE Find(s, set, from + 1)

\* The characters a scheme is made of.
IsSchemeChar(c) == (IsWord(c) /\ c # "_") \/ c \in {"+", "-", "."}
IsAlpha(c) == c \in LowerChars \cup UpperChars

\* url.split("?", 1), the fragment being split off: the path and the query.
SplitQuery(scheme, netloc, rest, fragment) ==
  LET quest == Find(rest, {"?"}, 1)
  IN  [scheme |-> scheme, netloc |-> netloc,
       path |-> SubSeq(rest, 1, quest - 1),
       query |-> SubSeq(rest, quest + 1, Len(rest)),
       fragment |-> fragment]

\* url.split("#", 1)
SplitFragment(scheme, netloc, rest) ==
  LET hash == Find(rest, {"#"}, 1)
  IN  SplitQuery(scheme, netloc, SubSeq(rest, 1, hash - 1),
                 SubSeq(rest, hash + 1, Len(rest)))

\* "//" opens the network location, which ends before "/", "?" or "#".
SplitNetloc(scheme, rest) ==
  LET delim == Find(rest, {"/", "?", "#"}, 3)
  IN  IF Len(rest) >= 2 /\ rest[1] = "/" /\ rest[2] = "/"
      THEN SplitFragment(scheme, SubSeq(rest, 3, delim - 1),
                         SubSeq(rest, delim, Len(rest)))
      ELSE SplitFragment(scheme, <<>>, rest)

\* url[:colon] is a scheme when it starts with a letter and holds scheme
\* characters only; it is lowercased.
SplitScheme(url, colon) ==
  IF /\ 1 < colon /\ colon <= Len(url)
     /\ IsAlpha(url[1])
     /\ \A i \in 1..(colon - 1) : IsSchemeChar(url[i])
  THEN SplitNetloc(LowerText(SubSeq(url, 1, colon - 1)),
                   SubSeq(url, colon + 1, Len(url)))
  ELSE SplitNetloc(<<>>, url)

urlparse(url) == SplitScheme(url, Find(url, {":"}, 1))

(***************************************************************************)
(* urllib.parse.urljoin and urlunparse, for a base URL with a network      *)
(* location and under the same limits as urlparse above.                   *)
(***************************************************************************)
\* s.split("/"): the pieces between the slashes, empty ones included.
RECURSIVE SplitSlash(_)
SplitSlash(s) ==
  LET i == Find(s, {"/"}, 1)
  IN  IF i > Len(s) THEN <<s>>
      ELSE <<SubSeq(s, 1, i - 1)>> \o SplitSlash(SubSeq(s, i + 1, Len(s)))

\* "/".join(segments)
RECURSIVE JoinSlash(_)
JoinSlash(segments) ==
  IF segments = <<>> THEN <<>>
  ELSE IF Len(segments) = 1 THEN segments[1]
  ELSE segments[1] \o <<"/">> \o JoinSlash(Tail(segments))

\* segments[1:-1] = filter(None, segments[1:-1])
DropInnerEmpty(segments) ==
  LET NonEmpty(x) == x # <<>>
  IN  IF Len(segments) <= 2 THEN segments
      ELSE <<segments[1]>>
             \o SelectSeq(SubSeq(segments, 2, Len(segments) - 1), NonEmpty)
             \o <<segments[Len(segments)]>>

\* The loop over the segments: ".." drops the segment before it, as long as
\* one is left after the first, and "." is dropped.
RECURSIVE ResolveDots(_, _)
ResolveDots(segments, resolved) ==
  IF segments = <<>> THEN resolved
  ELSE LET seg == Head(segments)
       IN  IF seg = <<".", ".">>
           THEN ResolveDots(Tail(segments),
                            IF Len(resolved) > 1
                            THEN SubSeq(resolved, 1, Len(resolved) - 1)
                            ELSE resolved)
           ELSE IF seg = <<".">> THEN ResolveDots(Tail(segments), resolved)
           ELSE ResolveDots(Tail(segments), Append(resolved, seg))

\* The schemes of uses_relative and uses_netloc that occur.
UsesRelative == {<<>>, <<"h", "t", "t", "p">>, <<"h", "t", "t", "p", "s">>}

urlunparse(u) ==
  (IF u.scheme = <<>> THEN <<>> ELSE u.scheme \o <<":">>)
    \o <<"/", "/">> \o u.netloc
    \o (IF u.path # <<>> /\ Head(u.path) # "/" THEN <<"/">> ELSE <<>>) \o u.path
    \o (IF u.query = <<>> THEN <<>> ELSE <<"?">> \o u.query)
    \o (IF u.fragment = <<>> THEN <<>> ELSE <<"#">> \o u.fragment)

\* The segments of the base path without the last one, unless that is empty.
BaseParts(parts) ==
  IF parts[Len(parts)] # <<>> THEN SubSeq(parts, 1, Len(parts) - 1) ELSE parts

\* The path segments to resolve: those of an absolute path, else those of
\* the base followed by those of the relative path.
Segments(bpath, path) ==
  IF Head(path) = "/" THEN SplitSlash(path)
  ELSE DropInnerEmpty(BaseParts(SplitSlash(bpath)) \o SplitSlash(path))

\* resolved_path, with the empty segment a trailing "." or ".." leaves.
ResolvedPath(segments) ==
  ResolveDots(segments, <<>>)
    \o (IF segments[Len(segments)] \in {<<".">>, <<".", ".">>}
        THEN << <<>> >> ELSE <<>>)

\* "/".join(resolved_path) or "/"
OrSlash(joined) == IF joined = <<>> THEN <<"/">> ELSE joined

\* urljoin once base and url are parsed; scheme is that of url, or that of
\* the base when url has none.
JoinParsed(b, p, scheme, url) ==
  IF scheme # b.scheme \/ scheme \notin UsesRelative THEN url
  ELSE IF p.netloc # <<>> THEN urlunparse([p EXCEPT !.scheme = scheme])
  ELSE IF p.path = <<>>
  THEN urlunparse([scheme |-> scheme, netloc |-> b.netloc, path |-> b.path,
                   query |-> IF p.query = <<>> THEN b.query ELSE p.query,
                   fragment |-> p.fragment])
  ELSE urlunparse([scheme |-> scheme, netloc |-> b.netloc,
                   path |-> OrSlash(JoinSlash(ResolvedPath(Segments(b.path, p.path)))),
                   query |-> p.query, fragment |-> p.fragment])

JoinSchemes(b, p, url) ==
  JoinParsed(b, p, IF p.scheme = <<>> THEN b.scheme ELSE p.scheme, url)

urljoin(base, url) ==
  IF url = <<>> THEN base ELSE JoinSchemes(urlparse(base), urlparse(url), url)

(***************************************************************************)
(* sanitize_filename_from_url (src/cron.py:182-189).                       *)
(***************************************************************************)
\* os.path.basename: what follows the last "/".
RECURSIVE Basename(_)
Basename(path) ==
  IF path = <<>> \/ path[Len(path)] = "/" THEN <<>>
  ELSE Basename(SubSeq(path, 1, Len(path) - 1)) \o <<path[Len(path)]>>

sanitize_filename_from_url(img_url, index) ==
  LET path == urlparse(img_url).path
      b0 == Basename(path)
      base == IF b0 = <<>>
              THEN <<"i", "m", "a", "g", "e", "-">> \o Decimal(index)
                     \o <<".", "j", "p", "g">>
              ELSE b0
  IN  SubRuns(base, "unsafe", <<"-">>)

(***************************************************************************)
(* extract_product_links (src/cron.py:110-124), given the hrefs of the     *)
(* anchors of the product cards in page order.                             *)
(***************************************************************************)
\* The characters in the order of their code points, which is the order
\* Python compares text by.
CodePoints ==
  <<" ", "!", "#", "+", "-", ".", "/",
    "0", "1", "2", "3", "4", "5", "6", "7", "8", "9", ":", "?",
    "A", "H", "L", "P", "S", "T", "X", "_",
    "a", "b", "c", "d", "e", "f", "g", "h", "i", "j", "l", "m", "o", "p", "q",
    "r", "s", "t", "u", "x">>

ord(c) == CHOOSE i \in DOMAIN CodePoints : CodePoints[i] = c

\* a <= b for two texts.
RECURSIVE TextLeq(_, _)
TextLeq(a, b) ==
  IF a = <<>> THEN TRUE
  ELSE IF b = <<>> THEN FALSE
  ELSE IF Head(a) = Head(b) THEN TextLeq(Tail(a), Tail(b))
  ELSE ord(Head(a)) < ord(Head(b))

\* The set as it comes, in no order a caller can rely on: list(links).
RECURSIVE unsorted(_)
unsorted(links) ==
  IF links = {} THEN <<>>
  ELSE LET last == CHOOSE x \in links : \A y \in links : TextLeq(y, x)
       IN  <<last>> \o unsorted(links \ {last})

\* sorted(links) for a set of texts.
RECURSIVE sorted(_)
sorted(links) ==
  IF links = {} THEN <<>>
  ELSE LET least == CHOOSE x \in links : \A y \in links : TextLeq(x, y)
       IN  <<least>> \o sorted(links \ {least})

WebSchemes == {<<"h", "t", "t", "p">>, <<"h", "t", "t", "p", "s">>}

\* The set links: an anchor with an empty href is passed over, the others
\* are resolved against the catalog URL and kept when http or https.
LinkSet(catalog_url, hrefs) ==
  LET given == {j \in DOMAIN hrefs : hrefs[j] # <<>>}
      resolved == {urljoin(catalog_url, hrefs[i]) : i \in given}
  IN  {full_url \in resolved : urlparse(full_url).scheme \in WebSchemes}

extract_product_links(catalog_url, hrefs) == sorted(LinkSet(catalog_url, hrefs))

(***************************************************************************)
(* The image URLs of parse_product_details (src/cron.py:132-142), given    *)
(* the href of the first anchor of each gallery figure in page order; the  *)
(* empty text stands for a figure without an anchor or with an empty href. *)
(***************************************************************************)
\* Every value once, where it is last: a later duplicate overwrites the
\* place of the earlier one.
RECURSIVE fromkeys_last(_)
fromkeys_last(urls) ==
  IF urls = <<>> THEN <<>>
  ELSE LET rest == fromkeys_last(Tail(urls))
       IN  IF \E i \in DOMAIN rest : rest[i] = Head(urls) THEN rest
           ELSE <<Head(urls)>> \o rest

\* list(dict.fromkeys(urls)): every value once, where it is first.
RECURSIVE fromkeys(_)
fromkeys(urls) ==
  IF urls = <<>> THEN <<>>
  ELSE LET init == fromkeys(SubSeq(urls, 1, Len(urls) - 1))
           last == urls[Len(urls)]
       IN  IF \E i \in DOMAIN init : init[i] = last THEN init
           ELSE Append(init, last)

image_urls(product_url, hrefs) ==
  LET Given(href) == href # <<>>
      given == SelectSeq(hrefs, Given)
  IN  fromkeys([i \in DOMAIN given |-> urljoin(product_url, given[i])])

(***************************************************************************)
(* canonical_product_url and product_unique_id (src/cron.py:34-53).        *)
(***************************************************************************)
\* The canonical form of a parsed URL.
Canonical(parsed) ==
  (IF parsed.scheme = <<>> THEN <<"h", "t", "t", "p", "s">> ELSE parsed.scheme)
    \o <<":", "/", "/">> \o LowerText(parsed.netloc)
    \o OrSlash(RStrip(parsed.path, "slash"))

canonical_product_url(product_url) == Canonical(urlparse(product_url))

\* uuid.uuid5(namespace, name): the SHA-1 digest of namespace and name, taken
\* to be free of collisions, so that an id stands for the pair it is made of.
uuid5(namespace, name) == [version |-> 5, namespace |-> namespace, name |-> name]

product_unique_id(product_url) ==
  uuid5("NAMESPACE_URL", canonical_product_url(product_url))

(***************************************************************************)
(* The site being scraped: the catalog page, and behind each product link  *)
(* a page, given by what parse_product_details selects from it: the        *)
(* whitespace-collapsed text of the title element (empty when the page has *)
(* none) and the hrefs of the gallery figures.  A product link is denoted  *)
(* by its position in the list extract_product_links returns.  Two pages   *)
(* have titles with the same slug, one has no title, one a title without a *)
(* word character and no image, and one two images of the same file name.  *)
(***************************************************************************)
CATALOG_URL == <<"h", "t", "t", "p", ":", "/", "/", "h", "/", "c">>

\* The href of the card of product k: an absolute path or a relative one.
CardHref(k) ==
  IF k % 2 = 1 THEN <<"/", "p">> \o Decimal(k)
  ELSE <<"p">> \o Decimal(k) \o <<".", "h">>

\* The hrefs of the product cards of a catalog page of n products, in page
\* order: the products from the last to the first, a link that is no web
\* page, and the first product once more, under its full URL.
CatalogHrefs(n) ==
  [i \in 1..n |-> CardHref(n + 1 - i)]
    \o (IF n = 0 THEN <<>>
        ELSE <<<<"m", "a", "i", "l", "t", "o", ":", "m">>, urljoin(CATALOG_URL, CardHref(1))>>)

\* product_links, for a catalog page of n products.
ProductLinks(n) == extract_product_links(CATALOG_URL, CatalogHrefs(n))

Pages ==
  { [title |-> <<"S", "h">>,      gallery |-> <<<<"/", "a", ".", "j">>, <<"b", ".", "j">>, <<"/", "a", ".", "j">>>>],
    [title |-> <<"s", "h", "!">>, gallery |-> <<<<"/", "a", ".", "j">>>>],
    [title |-> <<>>,              gallery |-> <<<<"/", "a", ".", "j">>>>],
    [title |-> <<"!">>,           gallery |-> <<>>],
    [title |-> <<"x">>,           gallery |-> <<<<"/", "a", ".", "j">>, <<"c", "/", "a", ".", "j">>>>] }

\* The catalogs of n links with at most m image URLs.
RECURSIVE ImageCount(_, _)
ImageCount(site, n) ==
  IF n = 0 THEN 0
  ELSE Len(image_urls(ProductLinks(Len(site))[n], site[n].gallery))
         + ImageCount(site, n - 1)

Catalogs(n, m) == {site \in [1..n -> Pages] : ImageCount(site, n) <= m}

\* The three failure classes of the except clauses (src/cron.py:173-178,
\* 205-210).
FailureKinds == {"http-status-error", "transport-error", "other"}

(***************************************************************************)
(* State.                                                                  *)
(***************************************************************************)
VARIABLES
  catalog,    \* the site: the page behind each link
  clean,      \* CLEAN_BEFORE_RUN
  skip,       \* DOWNLOAD_SKIP_EXISTS
  runs,       \* how many times the program is run
  run,        \* the number of the current run of scrape_catalog
  phase,      \* where scrape_catalog is
  product_links, \* the list extract_product_links returned
  dpc,        \* per link: where its fetch_product_details task is
  results,    \* per link: what its fetch_product_details task returned
  sem,        \* free slots of the detail semaphore
  products,   \* the list products, then products_with_images
  ppc,        \* per product: where its download_images_for_product task is
  ipc,        \* per product and image: where its download_image task is
  pdir,       \* per product: product_dir, the folder unique_folder returned
  saved,      \* per product and image: what download_image returned
  img_sem,    \* free slots of the image semaphore
  requests,   \* the image requests sent in this run, as <<product, index>>
  dirs,       \* the folders that exist under the image root
  files,      \* the files under the image root: <<relative path, source URL>>
  artifact,   \* the output file: whether it exists, and its records
  writes,     \* how often this run has written the output file
  error,      \* the exception that left scrape_catalog: where it was raised
  prev,       \* the output file as the previous run left it
  call        \* a helper called on its own: its name, argument and result

vars == <<catalog, clean, skip, runs, run, phase, product_links, dpc, results, sem, products,
          ppc, ipc, pdir, saved, img_sem, requests, dirs, files, artifact,
          writes, error, prev, call>>

config == <<catalog, clean, skip, runs>>
detailVars == <<dpc, results, sem>>
imageVars == <<products, ppc, ipc, pdir, saved, img_sem, requests>>
diskVars == <<dirs, files>>

\* The product links the catalog page yields, by position in product_links.
Links == DOMAIN catalog

\* The path of the product URL of link l.
LinkPath(l) == urlparse(product_links[l]).path

\* The value None of a task that has not returned a record, and an absent file.
NoRecord == [kind |-> "none", title |-> <<>>, images |-> <<>>, url |-> 0]
NoArtifact == [exists |-> FALSE, records |-> <<>>]

\* No helper is called on its own while scrape_catalog runs.
NoCall == [fn |-> "none"]

\* The state before scrape_catalog starts, on an empty disk.
Fresh ==
  /\ run = 1
  /\ phase = "start"
  /\ product_links = <<>>
  /\ dpc = [l \in Links |-> "idle"]
  /\ results = [l \in Links |-> NoRecord]
  /\ sem = 0
  /\ products = <<>>
  /\ ppc = <<>>
  /\ ipc = <<>>
  /\ pdir = <<>>
  /\ saved = <<>>
  /\ img_sem = 0
  /\ requests = {}
  /\ dirs = {}
  /\ files = {}
  /\ artifact = NoArtifact
  /\ writes = 0
  /\ error = "none"
  /\ prev = NoArtifact

\* One run, with the flags as the code sets them (src/cron.py:30-31).
Init ==
  /\ catalog \in Catalogs(MaxLinks, MaxImages)
  /\ clean = TRUE
  /\ skip = TRUE
  /\ runs = 1
  /\ Fresh
  /\ call = NoCall

\* Several runs against the same site with the output of a run left in place
\* for the next one, with and without skipping the files that exist.
InitRerun ==
  /\ catalog \in Catalogs(MaxRerunLinks, MaxRerunImages)
  /\ clean = FALSE
  /\ skip \in BOOLEAN
  /\ runs = MaxRuns
  /\ Fresh
  /\ call = NoCall

(***************************************************************************)
(* scrape_catalog, up to the catalog request (src/cron.py:244-257).        *)
(***************************************************************************)
\* clean_outputs (src/cron.py:84-100) when CLEAN_BEFORE_RUN, then the
\* request for the catalog page is sent.
Startup ==
  /\ phase = "start"
  /\ phase' = "catalog"
  /\ IF clean
     THEN artifact' = NoArtifact /\ dirs' = {} /\ files' = {}
     ELSE UNCHANGED <<artifact, dirs, files>>
  /\ UNCHANGED <<config, call, product_links, run, detailVars, imageVars, writes, error, prev>>

\* extract_product_links returns; one fetch_product_details task per link is
\* created under a fresh semaphore and gathered (src/cron.py:257-264).
CatalogOk ==
  /\ phase = "catalog"
  /\ phase' = "detail"
  /\ product_links' = ProductLinks(Len(catalog))
  /\ sem' = CONCURRENCY
  /\ dpc' = [l \in Links |-> "new"]
  /\ UNCHANGED <<config, call, run, results, imageVars, diskVars, artifact, writes, error, prev>>

\* A catalog failure that is caught and taken for an empty catalog.
CatalogFailSwallowed(kind) ==
  /\ phase = "catalog"
  /\ kind \in FailureKinds
  /\ phase' = "images"
  /\ error' = "catalog"
  /\ UNCHANGED <<config, call, product_links, run, detailVars, imageVars, diskVars, artifact, writes, prev>>

\* get_soup raises in extract_product_links: nothing catches it, and it
\* leaves scrape_catalog (src/cron.py:103-111, 257).
CatalogFail(kind) ==
  /\ phase = "catalog"
  /\ kind \in FailureKinds
  /\ phase' = "aborted"
  /\ error' = "catalog"
  /\ UNCHANGED <<config, call, product_links, run, detailVars, imageVars, diskVars, artifact, writes, prev>>

(***************************************************************************)
(* fetch_product_details (src/cron.py:161-179).                            *)
(***************************************************************************)
\* A semaphore that never makes a task wait.
CanAcquireAlways(value) == TRUE

\* asyncio.Semaphore: a slot can be taken when one is free.
CanAcquire(value) == value > 0

\* The detail tasks that have not taken their first step.
NewDetails == {l \in Links : dpc[l] = "new"}

\* The next task, in creation order, among those in state s.
NextDetail(l, s) == dpc[l] = s /\ \A k \in Links : dpc[k] = s => l <= k

\* fetch_product_details without its semaphore: the request is sent at once.
DetailStartUnbounded(l) ==
  /\ phase = "detail"
  /\ dpc[l] = "new" /\ \A k \in Links : dpc[k] = "new" => l <= k
  /\ sem' = sem - 1
  /\ dpc' = [dpc EXCEPT ![l] = "fetching"]
  /\ UNCHANGED <<config, call, product_links, run, phase, results, imageVars, diskVars, artifact, writes, error, prev>>

\* The task starts: "async with sem" takes a slot and the page request is
\* sent, or the task suspends on the full semaphore.
DetailStart(l) ==
  /\ phase = "detail"
  /\ NextDetail(l, "new")
  /\ IF CanAcquire(sem)
     THEN sem' = sem - 1 /\ dpc' = [dpc EXCEPT ![l] = "fetching"]
     ELSE sem' = sem /\ dpc' = [dpc EXCEPT ![l] = "waiting"]
  /\ UNCHANGED <<config, call, product_links, run, phase, results, imageVars, diskVars, artifact, writes, error, prev>>

\* The first suspended task gets a slot and sends its request.
DetailAcquire(l) ==
  /\ phase = "detail"
  /\ NewDetails = {}
  /\ NextDetail(l, "waiting")
  /\ CanAcquire(sem)
  /\ sem' = sem - 1
  /\ dpc' = [dpc EXCEPT ![l] = "fetching"]
  /\ UNCHANGED <<config, call, product_links, run, phase, results, imageVars, diskVars, artifact, writes, error, prev>>

\* parse_product_details (src/cron.py:127-158): the record of link l.
parse_product_details(l) ==
  [kind |-> "dict", title |-> catalog[l].title,
   images |-> image_urls(product_links[l], catalog[l].gallery), url |-> l]

\* The page arrives and is parsed; the record is returned whether or not it
\* has a title, and the slot is released.
DetailOk(l) ==
  /\ phase = "detail"
  /\ NewDetails = {}
  /\ dpc[l] = "fetching"
  /\ results' = [results EXCEPT ![l] = parse_product_details(l)]
  /\ sem' = sem + 1
  /\ dpc' = [dpc EXCEPT ![l] = "done"]
  /\ UNCHANGED <<config, call, product_links, run, phase, imageVars, diskVars, artifact, writes, error, prev>>

\* fetch_product_details without its except clauses: the exception reaches
\* the gather of scrape_catalog and leaves it.
DetailFailAborts(l, kind) ==
  /\ phase = "detail"
  /\ dpc[l] = "fetching"
  /\ kind \in FailureKinds
  /\ phase' = "aborted"
  /\ error' = "detail"
  /\ UNCHANGED <<config, call, product_links, run, detailVars, imageVars, diskVars, artifact, writes, prev>>

\* The request or the parse raises; each except clause logs, None is
\* returned, and the slot is released.
DetailFail(l, kind) ==
  /\ phase = "detail"
  /\ NewDetails = {}
  /\ dpc[l] = "fetching"
  /\ kind \in FailureKinds
  /\ results' = [results EXCEPT ![l] = NoRecord]
  /\ sem' = sem + 1
  /\ dpc' = [dpc EXCEPT ![l] = "done"]
  /\ UNCHANGED <<config, call, product_links, run, phase, imageVars, diskVars, artifact, writes, error, prev>>

(***************************************************************************)
(* scrape_catalog between the two phases (src/cron.py:264-275).            *)
(***************************************************************************)
\* The record a product starts the image phase with.
ProductOf(r) ==
  [url |-> r.url, title |-> r.title, images |-> r.images,
   image_files |-> <<>>, images_folder |-> <<>>]

\* The titled records, from the last task's to the first's.
TitledResultsReversed(res) ==
  LET Keep(r) == r.kind = "dict" /\ r.title # <<>>
      kept == SelectSeq([l \in 1..Len(res) |-> res[l]], Keep)
  IN  [p \in 1..Len(kept) |-> ProductOf(kept[Len(kept) + 1 - p])]

\* [r for r in results if isinstance(r, dict)]: the title is not looked at.
TitledResultsAnyDict(res) ==
  LET Keep(r) == r.kind = "dict"
      kept == SelectSeq([l \in 1..Len(res) |-> res[l]], Keep)
  IN  [p \in 1..Len(kept) |-> [url |-> kept[p].url, title |-> kept[p].title,
                               images |-> kept[p].images, image_files |-> <<>>,
                               images_folder |-> <<>>]]

\* [r for r in results if isinstance(r, dict) and r.get("title")]
TitledResults(res) ==
  LET Keep(r) == r.kind = "dict" /\ r.title # <<>>
      kept == SelectSeq([l \in 1..Len(res) |-> res[l]], Keep)
  IN  [p \in 1..Len(kept) |-> ProductOf(kept[p])]

\* The records are filtered as soon as one detail task has returned.
FilterProductsEarly ==
  /\ phase = "detail"
  /\ \E l \in Links : dpc[l] = "done"
  /\ phase' = "images"
  /\ products' = TitledResults(results)
  /\ ppc' = [p \in 1..Len(products') |-> "new"]
  /\ ipc' = [p \in 1..Len(products') |-> <<>>]
  /\ pdir' = [p \in 1..Len(products') |-> <<>>]
  /\ saved' = [p \in 1..Len(products') |-> <<>>]
  /\ img_sem' = IMAGE_CONCURRENCY
  /\ UNCHANGED <<config, call, product_links, run, detailVars, requests, diskVars, artifact, writes, error, prev>>

\* Every detail task has returned: the gather resumes scrape_catalog, which
\* filters the records and creates one download_images_for_product task per
\* product under a fresh image semaphore.
FilterProducts ==
  /\ phase = "detail"
  /\ \A l \in Links : dpc[l] = "done"
  /\ phase' = "images"
  /\ products' = TitledResults(results)
  /\ ppc' = [p \in 1..Len(products') |-> "new"]
  /\ ipc' = [p \in 1..Len(products') |-> <<>>]
  /\ pdir' = [p \in 1..Len(products') |-> <<>>]
  /\ saved' = [p \in 1..Len(products') |-> <<>>]
  /\ img_sem' = IMAGE_CONCURRENCY
  /\ UNCHANGED <<config, call, product_links, run, detailVars, requests, diskVars, artifact, writes, error, prev>>

(***************************************************************************)
(* download_images_for_product (src/cron.py:214-241).                      *)
(***************************************************************************)
\* os.path.splitext(name)[0]: name without its last extension; leading dots
\* are not an extension.
SplitextRoot(name) ==
  LET body == LStrip(name, "dot")
      lead == SubSeq(name, 1, Len(name) - Len(body))
      HasDot == \E i \in 1..Len(body) : body[i] = "."
      last == CHOOSE i \in 1..Len(body) :
                body[i] = "." /\ \A j \in (i + 1)..Len(body) : body[j] # "."
  IN  IF HasDot THEN lead \o SubSeq(body, 1, last - 1) ELSE name

\* The folder name of a product: the slug of its title, else of the basename
\* of its URL's path, else "product" (src/cron.py:219-224).
FolderName(title, url) ==
  LET stem == SplitextRoot(Basename(LinkPath(url)))
      product == <<"p", "r", "o", "d", "u", "c", "t">>
      fallback_name == slugify(IF stem = <<>> THEN product ELSE stem, product)
  IN  slugify(title, fallback_name)

\* dest, relative to the image root: product_dir / fname.
DestPath(p, i) ==
  pdir[p] \o <<"/">> \o sanitize_filename_from_url(products[p].images[i], i)

\* The paths of the files on disk.
FilePaths == {f[1] : f \in files}

\* rel_paths as gathered: a failed download leaves its None in the list.
SavedPathsPadded(paths) == paths

\* [p for p in rel_paths if p], in the order of the image URLs.
SavedPaths(paths) ==
  LET Truthy(x) == x # <<>>
  IN  SelectSeq(paths, Truthy)

\* The download_image tasks, and those that have not taken their first step.
ImageTasks == UNION {{<<p, i>> : i \in DOMAIN ipc[p]} : p \in DOMAIN ipc}
NewImages == {t \in ImageTasks : ipc[t[1]][t[2]] = "new"}
NewProducts == {p \in DOMAIN ppc : ppc[p] = "new"}

\* Creation order of the download_image tasks: by product, then by index.
Before(t, u) == t[1] < u[1] \/ (t[1] = u[1] /\ t[2] <= u[2])

\* The next download_image task, in creation order, among those in state s.
NextImage(p, i, s) ==
  /\ <<p, i>> \in ImageTasks
  /\ ipc[p][i] = s
  /\ \A u \in ImageTasks : ipc[u[1]][u[2]] = s => Before(<<p, i>>, u)

\* No task is waiting for its first step: every task created so far has run
\* up to its first suspension point.
AllStarted == NewProducts = {} /\ NewImages = {}

\* The task starts: it picks its folder with unique_folder and creates one
\* download_image coroutine per image URL, then suspends in gather.  With no
\* image URL the gather is already done, and the task runs to its end.
StartProduct(p) ==
  /\ phase = "images"
  /\ p \in NewProducts
  /\ \A q \in NewProducts : p <= q
  /\ LET product_dir == unique_folder(dirs, FolderName(products[p].title, products[p].url))
         n == Len(products[p].images)
     IN  /\ pdir' = [pdir EXCEPT ![p] = product_dir]
         /\ ipc' = [ipc EXCEPT ![p] = [i \in 1..n |-> "new"]]
         /\ saved' = [saved EXCEPT ![p] = [i \in 1..n |-> <<>>]]
         /\ IF n = 0
            THEN /\ ppc' = [ppc EXCEPT ![p] = "done"]
                 /\ products' = [products EXCEPT ![p].image_files = <<>>,
                                                 ![p].images_folder = product_dir]
            ELSE /\ ppc' = [ppc EXCEPT ![p] = "gathering"]
                 /\ products' = products
  /\ UNCHANGED <<config, call, product_links, run, phase, detailVars, img_sem, requests, diskVars, artifact,
                 writes, error, prev>>

\* Every download_image of the product has returned: the successful paths are
\* recorded in URL order, with the folder.
FinishProduct(p) ==
  /\ phase = "images"
  /\ AllStarted
  /\ p \in DOMAIN ppc
  /\ ppc[p] = "gathering"
  /\ \A i \in DOMAIN ipc[p] : ipc[p][i] = "done"
  /\ ppc' = [ppc EXCEPT ![p] = "done"]
  /\ products' = [products EXCEPT ![p].image_files = SavedPaths(saved[p]),
                                  ![p].images_folder = pdir[p]]
  /\ UNCHANGED <<config, call, product_links, run, phase, detailVars, ipc, pdir, saved, img_sem, requests,
                 diskVars, artifact, writes, error, prev>>

\* A download_image of the product has raised: gather hands the exception to
\* download_images_for_product, which does not catch it.  The product's
\* other downloads go on.
ProductRaise(p) ==
  /\ phase = "images"
  /\ AllStarted
  /\ p \in DOMAIN ppc
  /\ ppc[p] = "gathering"
  /\ \E i \in DOMAIN ipc[p] : ipc[p][i] = "raised"
  /\ ppc' = [ppc EXCEPT ![p] = "raised"]
  /\ UNCHANGED <<config, call, product_links, run, phase, detailVars, products, ipc, pdir, saved, img_sem,
                 requests, diskVars, artifact, writes, error, prev>>

(***************************************************************************)
(* download_image (src/cron.py:192-211).                                   *)
(***************************************************************************)
\* open(dest_path, "wb") and f.write(content): the file holds what was
\* fetched from url.
WriteFile(fs, path, url) == {f \in fs : f[1] # path} \cup {<<path, url>>}

\* The task starts and creates the parent folder.  An existing destination
\* is returned at once when DOWNLOAD_SKIP_EXISTS; otherwise "async with
\* img_sem" takes a slot and the image request is sent, or the task suspends
\* on the full semaphore.
ImageStart(p, i) ==
  /\ phase = "images"
  /\ NewProducts = {}
  /\ NextImage(p, i, "new")
  /\ dirs' = dirs \cup {pdir[p]}
  /\ IF skip /\ DestPath(p, i) \in FilePaths
     THEN /\ saved' = [saved EXCEPT ![p][i] = DestPath(p, i)]
          /\ ipc' = [ipc EXCEPT ![p][i] = "done"]
          /\ UNCHANGED <<img_sem, requests>>
     ELSE IF CanAcquire(img_sem)
     THEN /\ img_sem' = img_sem - 1
          /\ requests' = requests \cup {<<p, i>>}
          /\ ipc' = [ipc EXCEPT ![p][i] = "fetching"]
          /\ saved' = saved
     ELSE /\ ipc' = [ipc EXCEPT ![p][i] = "waiting"]
          /\ UNCHANGED <<img_sem, requests, saved>>
  /\ UNCHANGED <<config, call, product_links, run, phase, detailVars, products, ppc, pdir, files, artifact,
                 writes, error, prev>>

\* dest_path.parent.mkdir raises an OSError (src/cron.py:193, before the try):
\* the exception leaves download_image.  A folder that exists is no error
\* (exist_ok=True).
ImageMkdirFail(p, i) ==
  /\ phase = "images"
  /\ NewProducts = {}
  /\ NextImage(p, i, "new")
  /\ pdir[p] \notin dirs
  /\ ipc' = [ipc EXCEPT ![p][i] = "raised"]
  /\ UNCHANGED <<config, call, product_links, run, phase, detailVars, products, ppc, pdir, saved, img_sem,
                 requests, diskVars, artifact, writes, error, prev>>

\* The first suspended task gets a slot and sends its request.
ImageAcquire(p, i) ==
  /\ phase = "images"
  /\ AllStarted
  /\ NextImage(p, i, "waiting")
  /\ CanAcquire(img_sem)
  /\ img_sem' = img_sem - 1
  /\ requests' = requests \cup {<<p, i>>}
  /\ ipc' = [ipc EXCEPT ![p][i] = "fetching"]
  /\ UNCHANGED <<config, call, product_links, run, phase, detailVars, products, ppc, pdir, saved, diskVars,
                 artifact, writes, error, prev>>

\* The body arrives and is written to the destination; the path is returned
\* and the slot released.
ImageOk(p, i) ==
  /\ phase = "images"
  /\ AllStarted
  /\ <<p, i>> \in ImageTasks
  /\ ipc[p][i] = "fetching"
  /\ files' = WriteFile(files, DestPath(p, i), products[p].images[i])
  /\ saved' = [saved EXCEPT ![p][i] = DestPath(p, i)]
  /\ img_sem' = img_sem + 1
  /\ ipc' = [ipc EXCEPT ![p][i] = "done"]
  /\ UNCHANGED <<config, call, product_links, run, phase, detailVars, products, ppc, pdir, requests, dirs,
                 artifact, writes, error, prev>>

\* The request raises, or the body arrives and open raises an OSError: one
\* of the except clauses logs, None is returned, and the slot is released.
ImageFail(p, i, kind) ==
  /\ phase = "images"
  /\ AllStarted
  /\ <<p, i>> \in ImageTasks
  /\ ipc[p][i] = "fetching"
  /\ kind \in FailureKinds
  /\ saved' = [saved EXCEPT ![p][i] = <<>>]
  /\ img_sem' = img_sem + 1
  /\ ipc' = [ipc EXCEPT ![p][i] = "done"]
  /\ UNCHANGED <<config, call, product_links, run, phase, detailVars, products, ppc, pdir, requests, diskVars,
                 artifact, writes, error, prev>>

(***************************************************************************)
(* scrape_catalog, the end (src/cron.py:275-280).                          *)
(***************************************************************************)
\* The list is dumped as soon as one product task has returned.
WriteArtifactEarly ==
  /\ phase = "images"
  /\ \E p \in DOMAIN ppc : ppc[p] = "done"
  /\ phase' = "done"
  /\ artifact' = [exists |-> TRUE, records |-> products]
  /\ writes' = writes + 1
  /\ UNCHANGED <<config, call, product_links, run, detailVars, imageVars, diskVars, error, prev>>

\* Every product task has returned: the session is closed and the list is
\* dumped to the output file.
WriteArtifact ==
  /\ phase = "images"
  /\ \A p \in DOMAIN ppc : ppc[p] = "done"
  /\ phase' = "done"
  /\ artifact' = [exists |-> TRUE, records |-> products]
  /\ writes' = writes + 1
  /\ UNCHANGED <<config, call, product_links, run, detailVars, imageVars, diskVars, error, prev>>

\* A product task has raised: the gather of scrape_catalog raises, the
\* exception leaves scrape_catalog, and asyncio.run cancels the tasks that
\* are left, at once in this model; a cancelled download that holds a slot
\* gives it back on its way out of "async with img_sem".
Cancelled(pc) == IF pc \in {"done", "raised"} THEN pc ELSE "cancelled"

MainRaise ==
  /\ phase = "images"
  /\ \E p \in DOMAIN ppc : ppc[p] = "raised"
  /\ phase' = "aborted"
  /\ ppc' = [p \in DOMAIN ppc |-> Cancelled(ppc[p])]
  /\ ipc' = [p \in DOMAIN ipc |-> [i \in DOMAIN ipc[p] |-> Cancelled(ipc[p][i])]]
  /\ img_sem' = img_sem
       + Cardinality({t \in ImageTasks : ipc[t[1]][t[2]] = "fetching"})
  /\ error' = "image"
  /\ UNCHANGED <<config, call, product_links, run, detailVars, products, pdir, saved, requests,
                 diskVars, artifact, writes, prev>>

\* The program is run again, against the same site and the disk as it is.
NextRun ==
  /\ phase \in {"done", "aborted"}
  /\ run < runs
  /\ run' = run + 1
  /\ phase' = "start"
  /\ product_links' = <<>>
  /\ dpc' = [l \in Links |-> "idle"]
  /\ results' = [l \in Links |-> NoRecord]
  /\ sem' = 0
  /\ products' = <<>>
  /\ ppc' = <<>>
  /\ ipc' = <<>>
  /\ pdir' = <<>>
  /\ saved' = <<>>
  /\ img_sem' = 0
  /\ requests' = {}
  /\ writes' = 0
  /\ error' = "none"
  /\ prev' = artifact
  /\ UNCHANGED <<config, call, diskVars, artifact>>

\* One step of a run.
Next ==
  \/ Startup
  \/ CatalogOk
  \/ \E kind \in FailureKinds : CatalogFail(kind)
  \/ \E l \in Links : DetailStart(l)
  \/ \E l \in Links : DetailAcquire(l)
  \/ \E l \in Links : DetailOk(l)
  \/ \E l \in Links, kind \in FailureKinds : DetailFail(l, kind)
  \/ FilterProducts
  \/ \E p \in DOMAIN ppc : StartProduct(p)
  \/ \E t \in ImageTasks : ImageStart(t[1], t[2])
  \/ \E t \in ImageTasks : ImageMkdirFail(t[1], t[2])
  \/ \E t \in ImageTasks : ImageAcquire(t[1], t[2])
  \/ \E t \in ImageTasks : ImageOk(t[1], t[2])
  \/ \E t \in ImageTasks, kind \in FailureKinds : ImageFail(t[1], t[2], kind)
  \/ \E p \in DOMAIN ppc : FinishProduct(p)
  \/ \E p \in DOMAIN ppc : ProductRaise(p)
  \/ WriteArtifact
  \/ MainRaise

NextRerun == Next \/ NextRun

Spec == Init /\ [][Next]_vars

SpecRerun == InitRerun /\ [][NextRerun]_vars

(***************************************************************************)
(* The helpers called on their own.  While one is, scrape_catalog does not *)
(* run: its state stays as it is before a run, with no link.               *)
(***************************************************************************)
Idle ==
  /\ catalog = <<>>
  /\ clean = TRUE
  /\ skip = TRUE
  /\ runs = 1
  /\ Fresh

\* The parts product URLs are put together from: a scheme with its colon, a
\* network location with its "//", a path, a query and a fragment.
UrlSchemes == {<<>>, <<"h", "t", "t", "p", ":">>, <<"H", "T", "T", "P", ":">>}
UrlHosts == {<<>>, <<"/", "/", "x", ".", "c">>, <<"/", "/", "X", ".", "c">>}
UrlPaths == {<<>>, <<"/">>, <<"/", "p">>, <<"/", "p", "/">>, <<"p">>, <<"p", "/">>}
UrlQueries == {<<>>, <<"?", "a">>, <<"?", "a", "/">>}
UrlFragments == {<<>>, <<"#", "f">>, <<"#", "f", "/">>}

\* A path can follow a network location when it is empty or starts with "/".
UrlParts ==
  {u \in [scheme : UrlSchemes, host : UrlHosts, path : UrlPaths,
          query : UrlQueries, fragment : UrlFragments] :
     u.host # <<>> => (u.path = <<>> \/ Head(u.path) = "/")}

UrlText(u) == u.scheme \o u.host \o u.path \o u.query \o u.fragment

\* product_unique_id(url) is called for a URL.
InitIdentity ==
  /\ Idle
  /\ call \in {[fn |-> "product_unique_id", arg |-> u, done |-> FALSE]
                 : u \in UrlParts}

product_unique_id_call ==
  /\ call.fn = "product_unique_id"
  /\ ~call.done
  /\ call' = [call EXCEPT !.done = TRUE] @@
             [canonical |-> canonical_product_url(UrlText(call.arg)),
              id |-> product_unique_id(UrlText(call.arg))]
  /\ UNCHANGED <<config, product_links, run, phase, detailVars, imageVars,
                 diskVars, artifact, writes, error, prev>>

NextIdentity == product_unique_id_call

SpecIdentity == InitIdentity /\ [][NextIdentity]_vars

\* The hrefs a gallery figure can carry: absolute and relative paths, full
\* URLs, two of them of one image, and none.
GalleryHrefs == {<<"/", "a", ".", "j">>, <<"b", ".", "j">>, <<"h", "t", "t", "p", ":", "/", "/", "h", "/", "b", ".", "j">>, <<"c", "/">>, <<>>}

\* The sequences of at most n elements of a set.
RECURSIVE SeqsUpTo(_, _)
SeqsUpTo(set, n) ==
  IF n = 0 THEN {<<>>}
  ELSE LET shorter == SeqsUpTo(set, n - 1)
       IN  shorter \cup {Append(q, x) : q \in shorter, x \in set}

\* parse_product_details(soup, product_url) is called for a page whose
\* gallery figures carry the hrefs arg.
InitGallery ==
  /\ Idle
  /\ call \in {[fn |-> "parse_product_details", product_url |-> <<"h", "t", "t", "p", ":", "/", "/", "h", "/", "p", "1">>,
                arg |-> hrefs, done |-> FALSE]
                 : hrefs \in SeqsUpTo(GalleryHrefs, MaxGallery)}

parse_product_details_call ==
  /\ call.fn = "parse_product_details"
  /\ ~call.done
  /\ call' = [call EXCEPT !.done = TRUE] @@
             [images |-> image_urls(call.product_url, call.arg)]
  /\ UNCHANGED <<config, product_links, run, phase, detailVars, imageVars,
                 diskVars, artifact, writes, error, prev>>

NextGallery == parse_product_details_call

SpecGallery == InitGallery /\ [][NextGallery]_vars

\* The hrefs a product card's anchor can carry: an absolute and a relative
\* path, full URLs (one of them of the first path, one in upper case), a link
\* that is no web page, and none.
AnchorHrefs == {<<"/", "p", "1">>, <<"p", "2">>, <<"h", "t", "t", "p", ":", "/", "/", "h", "/", "p", "1">>,
                <<"H", "T", "T", "P", "S", ":", "/", "/", "h", "/", "P">>, <<"m", "a", "i", "l", "t", "o", ":", "m">>, <<>>}

\* extract_product_links(catalog_url, session) is called for a catalog page
\* whose product cards carry the hrefs arg, in page order.
InitLinks ==
  /\ Idle
  /\ call \in {[fn |-> "extract_product_links", catalog_url |-> CATALOG_URL,
                arg |-> hrefs, done |-> FALSE]
                 : hrefs \in SeqsUpTo(AnchorHrefs, MaxAnchors)}

extract_product_links_call ==
  /\ call.fn = "extract_product_links"
  /\ ~call.done
  /\ call' = [call EXCEPT !.done = TRUE] @@
             [links |-> extract_product_links(call.catalog_url, call.arg)]
  /\ UNCHANGED <<config, product_links, run, phase, detailVars, imageVars,
                 diskVars, artifact, writes, error, prev>>

NextLinks == extract_product_links_call

SpecLinks == InitLinks /\ [][NextLinks]_vars

\* download_image is called, as the gather of download_images_for_product
\* calls it, for every image of two titled products, on a disk where the
\* product folders may exist and may hold files under destination names: a
\* download that is taken up again.  The flag is set or not.
OldContent == <<"o", "l", "d">>

InitDownload ==
  /\ catalog \in {site \in Catalogs(2, MaxImages) :
                    \A l \in 1..2 : site[l].title # <<>> /\ site[l].gallery # <<>>}
  /\ clean = FALSE
  /\ skip \in BOOLEAN
  /\ runs = 1
  /\ run = 1
  /\ phase = "images"
  /\ product_links = ProductLinks(Len(catalog))
  /\ dpc = [l \in Links |-> "done"]
  /\ results = [l \in Links |-> parse_product_details(l)]
  /\ sem = CONCURRENCY
  /\ products = TitledResults(results)
  /\ ppc = [p \in DOMAIN products |-> "gathering"]
  /\ ipc = [p \in DOMAIN products |-> [i \in DOMAIN products[p].images |-> "new"]]
  /\ LET first == unique_folder({}, FolderName(products[1].title, products[1].url))
     IN  pdir = <<first, unique_folder({first}, FolderName(products[2].title, products[2].url))>>
  /\ saved = [p \in DOMAIN products |-> [i \in DOMAIN products[p].images |-> <<>>]]
  /\ img_sem = IMAGE_CONCURRENCY
  /\ requests = {}
  /\ \E kept \in SUBSET ImageTasks, empty \in SUBSET (DOMAIN products) :
       /\ files = {<<DestPath(t[1], t[2]), OldContent>> : t \in kept}
       /\ dirs = {pdir[t[1]] : t \in kept} \cup {pdir[p] : p \in empty}
  /\ artifact = NoArtifact
  /\ writes = 0
  /\ error = "none"
  /\ prev = NoArtifact
  /\ call = NoCall

NextDownload ==
  \/ \E t \in ImageTasks : ImageStart(t[1], t[2])
  \/ \E t \in ImageTasks : ImageMkdirFail(t[1], t[2])
  \/ \E t \in ImageTasks : ImageAcquire(t[1], t[2])
  \/ \E t \in ImageTasks : ImageOk(t[1], t[2])
  \/ \E t \in ImageTasks, kind \in FailureKinds : ImageFail(t[1], t[2], kind)
  \/ \E p \in DOMAIN ppc : FinishProduct(p)
  \/ \E p \in DOMAIN ppc : ProductRaise(p)
  \/ WriteArtifact
  \/ MainRaise

SpecDownload == InitDownload /\ [][NextDownload]_vars

(***************************************************************************)
(* The display layer: the pagination of the index handler                  *)
(* (src/main.py:162-172, 181-242).  The filtered list is given by the      *)
(* positions of its items.                                                 *)
(***************************************************************************)
PER_PAGE_DEFAULT == <<"2", "0">>

\* The value of one decimal digit, and of a text of digits.
DigitValue(c) == CHOOSE d \in 0..9 : Decimal(d) = <<c>>

RECURSIVE DigitsValue(_)
DigitsValue(digits) ==
  IF digits = <<>> THEN 0
  ELSE 10 * DigitsValue(SubSeq(digits, 1, Len(digits) - 1))
         + DigitValue(digits[Len(digits)])

\* int(text): surrounding whitespace is dropped, a sign may lead, and the
\* rest has to be digits; anything else raises ValueError.
IntOfSigned(sign, digits) ==
  IF digits # <<>> /\ \A i \in DOMAIN digits : digits[i] \in DigitChars
  THEN [ok |-> TRUE, value |-> sign * DigitsValue(digits)]
  ELSE [ok |-> FALSE, value |-> 0]

IntOfStripped(text) ==
  IF text # <<>> /\ Head(text) = "-" THEN IntOfSigned(-1, Tail(text))
  ELSE IF text # <<>> /\ Head(text) = "+" THEN IntOfSigned(1, Tail(text))
  ELSE IntOfSigned(1, text)

int(text) == IntOfStripped(Strip(text, "space"))

\* The page size of a parsed per_page (src/main.py:166-172).
PageSizeOf(parsed) ==
  IF ~parsed.ok \/ parsed.value <= 0 THEN int(PER_PAGE_DEFAULT).value
  ELSE parsed.value

resolve_page_size(per_page, total_items) ==
  IF LowerText(per_page) \in {<<"a", "l", "l">>, <<"*">>}
  THEN IF total_items > 0 THEN total_items ELSE 0
  ELSE PageSizeOf(int(per_page))

\* filtered[start:end]
Slice(list, start, end) ==
  SubSeq(list, start + 1, IF end < Len(list) THEN end ELSE Len(list))

\* The page shown without the test "if page > pages".
PageOfUnclamped(page, pages, page_size, filtered) ==
  [page |-> page, pages |-> pages, page_size |-> page_size,
   paged |-> Slice(filtered, (page - 1) * page_size, (page - 1) * page_size + page_size)]

\* src/main.py:213-217, with pages computed.
PageOf(page, pages, page_size, filtered) ==
  LET shown == IF page > pages THEN pages ELSE page
  IN  [page |-> shown, pages |-> pages, page_size |-> page_size,
       paged |-> Slice(filtered, (shown - 1) * page_size, (shown - 1) * page_size + page_size)]

\* max(1, (total + page_size - 1) // page_size)
PageCount(total, page_size) ==
  IF (total + page_size - 1) \div page_size < 1 THEN 1
  ELSE (total + page_size - 1) \div page_size

\* src/main.py:202-217, with page_size resolved.
Paginate(page, page_size, filtered) ==
  IF Len(filtered) = 0
  THEN [page |-> 1, pages |-> 1, page_size |-> page_size, paged |-> <<>>]
  ELSE IF page_size = 0 \/ page_size >= Len(filtered)
  THEN [page |-> 1, pages |-> 1, page_size |-> page_size, paged |-> filtered]
  ELSE PageOf(page, PageCount(Len(filtered), page_size), page_size, filtered)

\* index, as far as the pagination: what it hands to the template.
index(page, per_page, filtered) ==
  Paginate(IF page < 1 THEN 1 ELSE page,
           resolve_page_size(per_page, Len(filtered)), filtered)

\* The values of per_page: numbers, with a sign or blanks, below one, the
\* words for everything in either letter case, and texts that are no number.
PerPageTexts ==
  {<<"1">>, <<"2">>, <<"3">>, <<"7">>, <<"2", "0">>, <<"2", "1">>, <<"5", "0">>, <<"+", "2">>, <<" ", "3", " ">>,
   <<"0">>, <<"-", "1">>, <<"-", "0">>, <<"a", "l", "l">>, <<"A", "L", "L">>, <<"*">>,
   <<>>, <<"x">>, <<"2", "x">>, <<"2", ".", "5">>, <<"-">>, <<"1", " ", "0">>}

\* index is asked for a page of a filtered list.
InitIndex ==
  /\ Idle
  /\ call \in {[fn |-> "index", page |-> page, per_page |-> per_page,
                filtered |-> [i \in 1..total |-> i], done |-> FALSE]
                 : page \in (0 - 2)..MaxPage, per_page \in PerPageTexts, total \in 0..MaxTotal}

index_call ==
  /\ call.fn = "index"
  /\ ~call.done
  /\ call' = [call EXCEPT !.done = TRUE] @@
             [pagination |-> index(call.page, call.per_page, call.filtered)]
  /\ UNCHANGED <<config, product_links, run, phase, detailVars, imageVars,
                 diskVars, artifact, writes, error, prev>>

NextIndex == index_call

SpecIndex == InitIndex /\ [][NextIndex]_vars

(***************************************************************************)
(* Properties.                                                             *)
(***************************************************************************)
\* The detail fetches and the image downloads in flight.
DetailsInFlight == {l \in Links : dpc[l] = "fetching"}
ImagesInFlight == {t \in ImageTasks : ipc[t[1]][t[2]] = "fetching"}

\* The links whose fetch_product_details returned None.
FailedLinks == {l \in Links : dpc[l] = "done" /\ results[l].kind = "none"}

\* The products that hold a folder: unique_folder has returned it to them.
Claimants == {p \in DOMAIN ppc : ppc[p] # "new"}

\* C1: in one run no two products end with the same images_folder, and no
\* product downloads into a folder another product holds.
C1_FoldersUnique ==
  \A p \in Claimants : \A q \in Claimants : p # q => pdir[p] # pdir[q]

C2_AllTitled == \A l \in Links : catalog[l].title # <<>>

\* C2: when every page carries a title and k detail fetches fail, no failure
\* ends the run, the other fetches return the record of their page, and the
\* list of products, and the output file once written, holds exactly the
\* M - k other links.
C2_PartialFailureIsolation ==
  C2_AllTitled =>
    /\ phase = "aborted" => error \in {"catalog", "image"}
    /\ error = "catalog" => \A l \in Links : dpc[l] = "idle"
    /\ error = "image" => \A l \in Links : dpc[l] = "done"
    /\ \A l \in Links :
         dpc[l] = "done" /\ l \notin FailedLinks => results[l] = parse_product_details(l)
    /\ phase \in {"images", "done"} =>
         /\ Len(products) = Cardinality(Links) - Cardinality(FailedLinks)
         /\ {products[p].url : p \in DOMAIN products} = Links \ FailedLinks
    /\ phase = "done" =>
         /\ artifact.exists
         /\ Len(artifact.records) = Cardinality(Links) - Cardinality(FailedLinks)
         /\ {artifact.records[p].url : p \in DOMAIN artifact.records} = Links \ FailedLinks

\* One of M titled links failed and the output file holds M - 1 records.
C2_Witness ==
  /\ C2_AllTitled
  /\ phase = "done"
  /\ Cardinality(FailedLinks) = 1
  /\ Len(artifact.records) = Cardinality(Links) - 1

\* C3: every failure of an image download, the creation of the parent folder
\* included, stays inside download_image: no download task raises and no run
\* ends because of one.
C3_ImageFailuresContained ==
  /\ \A t \in ImageTasks : ipc[t[1]][t[2]] # "raised"
  /\ error # "image"

\* C4: at most CONCURRENCY detail fetches are in flight.
C4_DetailBound == Cardinality(DetailsInFlight) <= CONCURRENCY

\* The detail pool is full and a task waits for a slot.
C4_Witness ==
  /\ Cardinality(DetailsInFlight) = CONCURRENCY
  /\ \E l \in Links : dpc[l] = "waiting"

\* C5: at most IMAGE_CONCURRENCY image downloads are in flight, all products
\* together.
C5_ImageBound == Cardinality(ImagesInFlight) <= IMAGE_CONCURRENCY

\* The image pool is full with downloads of two products and a task waits.
C5_Witness ==
  /\ Cardinality(ImagesInFlight) = IMAGE_CONCURRENCY
  /\ \E t \in ImagesInFlight : \E u \in ImagesInFlight : t[1] # u[1]
  /\ \E t \in ImageTasks : ipc[t[1]][t[2]] = "waiting"

\* The file an earlier run recorded for image i of the product of link l, if
\* a record of the previous output file names one that is still on disk.
C6_OnDisk(l, i, url) ==
  \E r \in DOMAIN prev.records :
    LET path == prev.records[r].images_folder \o <<"/">>
                  \o sanitize_filename_from_url(url, i)
    IN  /\ prev.records[r].url = l
        /\ \E k \in DOMAIN prev.records[r].image_files :
             prev.records[r].image_files[k] = path
        /\ path \in FilePaths

\* C6: in a second run with skip-existing on and the tree of the first run
\* kept, no request is sent for an image that is on disk, and a product whose
\* images were all saved by the first run gets the same image_files.
C6_IdempotentSkip ==
  (run > 1 /\ skip /\ ~clean /\ prev.exists) =>
    /\ \A t \in requests :
         ~C6_OnDisk(products[t[1]].url, t[2], products[t[1]].images[t[2]])
    /\ phase = "done" =>
         \A p \in DOMAIN artifact.records : \A r \in DOMAIN prev.records :
           ( /\ artifact.records[p].url = prev.records[r].url
             /\ Len(prev.records[r].image_files) = Len(prev.records[r].images) )
           => artifact.records[p].image_files = prev.records[r].image_files

\* C7: a failed catalog fetch leaves scrape_catalog as an exception: no
\* detail fetch and no image download was started and this run wrote no
\* output file.
C7_CatalogFailureFatal ==
  error = "catalog" =>
    /\ phase = "aborted"
    /\ \A l \in Links : dpc[l] = "idle" /\ results[l] = NoRecord
    /\ products = <<>> /\ ppc = <<>> /\ ipc = <<>>
    /\ requests = {}
    /\ writes = 0
    /\ ~artifact.exists

\* The catalog fetch has failed.
C7_Witness == phase = "aborted" /\ error = "catalog" /\ writes = 0

\* C8: a fetched page without a title gives a record, not None, with an empty
\* title; no such record is among the products, which alone get a folder and
\* downloads, and every record of the output file has a title.
C8_TitleFilter ==
  /\ \A l \in Links :
       results[l].kind = "dict" =>
         /\ results[l].title = catalog[l].title
         /\ results[l] # NoRecord
         /\ results[l].title = <<>> =>
              /\ \A p \in DOMAIN products : products[p].url # l
              /\ \A p \in DOMAIN artifact.records : artifact.records[p].url # l
  /\ \A p \in DOMAIN products : products[p].title # <<>>
  /\ \A p \in DOMAIN artifact.records : artifact.records[p].title # <<>>
  /\ DOMAIN pdir = DOMAIN products /\ DOMAIN ipc = DOMAIN products

\* A run has ended with a title-less record, a failed fetch and a product.
C8_Witness ==
  /\ phase = "done"
  /\ \E l \in Links : results[l].kind = "dict" /\ results[l].title = <<>>
  /\ FailedLinks # {}
  /\ artifact.records # <<>>

\* The paths of the downloads 1..n of product p that returned a path, in the
\* order of the image URLs.
RECURSIVE C9_Expected(_, _)
C9_Expected(p, n) ==
  IF n = 0 THEN <<>>
  ELSE C9_Expected(p, n - 1)
         \o (IF saved[p][n] # <<>> THEN <<DestPath(p, n)>> ELSE <<>>)

\* C9: image_files of a finished product holds, in URL order, one path per
\* download that succeeded and nothing for one that failed.
C9_ImageFilesOrdered ==
  \A p \in DOMAIN products :
    ppc[p] = "done" =>
      /\ products[p].image_files = C9_Expected(p, Len(products[p].images))
      /\ Len(products[p].image_files) <= Len(products[p].images)
      /\ \A k \in DOMAIN products[p].image_files : products[p].image_files[k] # <<>>
      /\ phase = "done" => artifact.records[p].image_files = products[p].image_files

\* A product is written whose first download failed and whose second one
\* succeeded.
C9_Witness ==
  /\ phase = "done"
  /\ \E p \in DOMAIN products :
       /\ Len(products[p].images) = 2
       /\ saved[p][1] = <<>>
       /\ artifact.records[p].image_files = <<DestPath(p, 2)>>

\* No task of the run is left to finish.
C10_AllFinished ==
  /\ \A l \in Links : dpc[l] = "done"
  /\ \A p \in DOMAIN ppc : ppc[p] = "done"
  /\ \A t \in ImageTasks : ipc[t[1]][t[2]] = "done"

\* C10: a run writes the output file at most once, whole and after all its
\* tasks have finished; before that the file holds no record of the run, and
\* afterwards the records are as written.
C10_ArtifactWrittenOnce ==
  /\ writes <= 1
  /\ writes = 0 => (artifact = NoArtifact \/ artifact = prev)
  /\ writes = 1 =>
       /\ phase = "done"
       /\ C10_AllFinished
       /\ artifact = [exists |-> TRUE, records |-> products]

\* The output file is written, with products in it.
C10_Witness == writes = 1 /\ Len(artifact.records) >= 2

\* The URLs that differ from u only in the query, the fragment, one trailing
\* slash of the path or the letter case of the host.
C11_Variants(u) ==
  {v \in UrlParts :
     /\ v.scheme = u.scheme
     /\ LowerText(v.host) = LowerText(u.host)
     /\ \/ v.path = u.path
        \/ v.path = u.path \o <<"/">>
        \/ u.path = v.path \o <<"/">>}

\* C11: the id of a URL is the uuid5 of its canonical form; URLs that differ
\* only in query, fragment, a trailing slash or the case of the host have the
\* same id; and the canonical form of a canonical URL is that URL, with the
\* same id.
C11_IdentityDeterminism ==
  (call.fn = "product_unique_id" /\ call.done) =>
    /\ call.id = uuid5("NAMESPACE_URL", call.canonical)
    /\ \A v \in C11_Variants(call.arg) : product_unique_id(UrlText(v)) = call.id
    /\ canonical_product_url(call.canonical) = call.canonical
    /\ product_unique_id(call.canonical) = call.id

\* The gallery URLs of the call as found: the hrefs that are not empty, each
\* resolved against the product URL, in page order.
C12_Found ==
  LET Given(href) == href # <<>>
      given == SelectSeq(call.arg, Given)
  IN  [i \in DOMAIN given |-> urljoin(call.product_url, given[i])]

\* The place where a URL is found first.
C12_First(found, url) ==
  CHOOSE i \in DOMAIN found :
    found[i] = url /\ \A j \in 1..(i - 1) : found[j] # url

\* C12: images holds every URL found in the gallery, and nothing else, each
\* once, in the order of their first occurrence.
C12_DedupFirstOccurrence ==
  (call.fn = "parse_product_details" /\ call.done) =>
    LET found == C12_Found
        images == call.images
    IN  /\ {images[i] : i \in DOMAIN images} = {found[i] : i \in DOMAIN found}
        /\ \A i \in DOMAIN images : \A j \in DOMAIN images :
             images[i] = images[j] => i = j
        /\ \A i \in DOMAIN images : \A j \in DOMAIN images :
             i < j => C12_First(found, images[i]) < C12_First(found, images[j])

\* The gallery [A, B, A, C] has been parsed, and images is [A, B, C].
C12_Witness ==
  /\ call.fn = "parse_product_details" /\ call.done
  /\ call.arg = <<<<"/", "a", ".", "j">>, <<"b", ".", "j">>, <<"/", "a", ".", "j">>, <<"c", "/">>>>
  /\ call.images = <<<<"h", "t", "t", "p", ":", "/", "/", "h", "/", "a", ".", "j">>,
                    <<"h", "t", "t", "p", ":", "/", "/", "h", "/", "b", ".", "j">>,
                    <<"h", "t", "t", "p", ":", "/", "/", "h", "/", "c", "/">>>>

\* C13: a run whose catalog fetch succeeded is not cut short: it goes on to
\* the output file.  On the way every slot of a pool is either free or held
\* by a request in flight, whether requests succeed or fail, so that a task
\* suspended on a full pool has a request ahead of it whose end frees a slot;
\* and when a phase is over its pool has all its slots free.
C13_Terminates ==
  /\ phase = "aborted" => error = "catalog"
  /\ phase = "detail" => sem + Cardinality(DetailsInFlight) = CONCURRENCY
  /\ phase = "images" => img_sem + Cardinality(ImagesInFlight) = IMAGE_CONCURRENCY
  /\ \A l \in Links : dpc[l] = "waiting" => (sem > 0 \/ DetailsInFlight # {})
  /\ \A t \in ImageTasks :
       ipc[t[1]][t[2]] = "waiting" => (img_sem > 0 \/ ImagesInFlight # {})
  /\ phase \in {"images", "done"} =>
       /\ sem = CONCURRENCY
       /\ \A l \in Links : dpc[l] = "done"
  /\ phase = "done" =>
       /\ img_sem = IMAGE_CONCURRENCY
       /\ C10_AllFinished
       /\ writes = 1 /\ artifact.exists

\* C14: download_image called with DOWNLOAD_SKIP_EXISTS on a destination that
\* exists returns the destination without a request, without taking a slot
\* of the image pool and without touching the file; called otherwise, it
\* sends exactly one request, holding a slot of the pool: at its first step
\* or, after waiting for a slot, later; and a call that has ended without a
\* request has returned its destination.
C14_FirstStep(p, i) ==
  IF skip /\ DestPath(p, i) \in FilePaths
  THEN /\ ipc'[p][i] = "done"
       /\ saved'[p][i] = DestPath(p, i)
       /\ UNCHANGED <<requests, img_sem, files>>
  ELSE \/ /\ ipc'[p][i] = "fetching"
          /\ <<p, i>> \notin requests
          /\ requests' = requests \cup {<<p, i>>}
          /\ img_sem > 0
          /\ img_sem' = img_sem - 1
       \/ /\ ipc'[p][i] = "waiting"
          /\ img_sem = 0
          /\ UNCHANGED <<requests, img_sem, files>>

C14_LaterStep(p, i) ==
  /\ ipc'[p][i] = "fetching" =>
       /\ <<p, i>> \notin requests
       /\ requests' = requests \cup {<<p, i>>}
       /\ img_sem > 0
       /\ img_sem' = img_sem - 1
  /\ ipc'[p][i] # "fetching" => requests' = requests

C14_Ended(p, i) ==
  ipc'[p][i] \notin {"new", "waiting", "fetching"} =>
    \/ <<p, i>> \in requests'
    \/ ipc'[p][i] = "done" /\ saved'[p][i] = DestPath(p, i)

C14_Step ==
  /\ \A t \in ImageTasks :
       /\ (ipc[t[1]][t[2]] = "new" /\ ipc'[t[1]][t[2]] # "new")
            => C14_FirstStep(t[1], t[2])
       /\ (ipc[t[1]][t[2]] = "waiting" /\ ipc'[t[1]][t[2]] # "waiting")
            => C14_LaterStep(t[1], t[2])
       /\ C14_Ended(t[1], t[2])
  /\ requests' # requests =>
       \E t \in ImageTasks : /\ ipc[t[1]][t[2]] \in {"new", "waiting"}
                              /\ ipc'[t[1]][t[2]] = "fetching"

C14_SkipOrOneRequest == [][C14_Step]_vars

\* C15: the phases of a run follow one another: no detail fetch has started
\* before extract_product_links has returned; the products are filtered, a
\* folder is claimed and an image download is started only when every detail
\* fetch has returned, with a record or with None; so no detail fetch and
\* image download are in flight together.
C15_PhasesOrdered ==
  /\ phase \in {"start", "catalog"} \/ error = "catalog" =>
       /\ product_links = <<>>
       /\ \A l \in Links : dpc[l] = "idle"
  /\ (\E l \in Links : dpc[l] # "idle") => DOMAIN product_links = Links
  /\ (products # <<>> \/ ppc # <<>> \/ pdir # <<>> \/ ImageTasks # {}
        \/ requests # {} \/ phase \in {"images", "done"} \/ error = "image") =>
       \A l \in Links : dpc[l] = "done"
  /\ DetailsInFlight = {} \/ ImagesInFlight = {}

\* Two images are being downloaded after one detail fetch has failed and
\* another has returned a record.
C15_Witness ==
  /\ phase = "images"
  /\ Cardinality(ImagesInFlight) = 2
  /\ FailedLinks # {}
  /\ \A l \in Links : dpc[l] = "done"

\* The resolved URLs of the anchors of the call, and those of them that
\* start with "http:" or "https:", in either letter case.
C16_Resolved ==
  {urljoin(call.catalog_url, call.arg[j]) : j \in {k \in DOMAIN call.arg : call.arg[k] # <<>>}}

C16_WebLinks ==
  {full_url \in C16_Resolved :
     \E i \in 1..Len(full_url) :
        LowerText(SubSeq(full_url, 1, i)) \in {<<"h", "t", "t", "p", ":">>, <<"h", "t", "t", "p", "s", ":">>}}

\* C16: the sequence extract_product_links returns holds each resolved link
\* of scheme http or https exactly once and nothing else, in ascending
\* order of the URL text, whatever the order of the anchors.
C16_SortedUniqueLinks ==
  (call.fn = "extract_product_links" /\ call.done) =>
    /\ \A full_url \in C16_WebLinks :
         Cardinality({i \in DOMAIN call.links : call.links[i] = full_url}) = 1
    /\ \A i \in DOMAIN call.links : call.links[i] \in C16_WebLinks
    /\ \A i \in DOMAIN call.links : \A j \in DOMAIN call.links :
         i < j => (TextLeq(call.links[i], call.links[j]) /\ call.links[i] # call.links[j])

\* The anchors come in descending order, with one link under two hrefs and
\* one link that is no web page among them; two links are returned.
C16_Witness ==
  /\ call.fn = "extract_product_links" /\ call.done
  /\ call.arg = <<<<"p", "2">>, <<"h", "t", "t", "p", ":", "/", "/", "h", "/", "p", "1">>, <<"/", "p", "1">>, <<"m", "a", "i", "l", "t", "o", ":", "m">>>>
  /\ call.links = <<<<"h", "t", "t", "p", ":", "/", "/", "h", "/", "p", "1">>, <<"h", "t", "t", "p", ":", "/", "/", "h", "/", "p", "2">>>>

\* C17: in one run no two download_image tasks have the same destination,
\* within a product and across products; and once the run is done, every
\* path a product records in image_files names a file that holds what was
\* fetched from the URL at the same place in its images.
C17_DestinationsDistinct ==
  /\ \A t \in ImageTasks : \A u \in ImageTasks :
       t # u => DestPath(t[1], t[2]) # DestPath(u[1], u[2])
  /\ phase = "done" =>
       \A t \in ImageTasks :
         saved[t[1]][t[2]] # <<>> =>
           <<saved[t[1]][t[2]], products[t[1]].images[t[2]]>> \in files

\* The URL of a record, and the links whose detail fetch returned a record
\* with a title.
C18_Url(r) == product_links[r.url]
C18_Surviving == {l \in Links : results[l].kind = "dict" /\ results[l].title # <<>>}

\* C18: the records of the output file are in ascending order of their
\* product URLs, the order of product_links, and every link whose page was
\* fetched and has a title has exactly one record.
C18_RecordsInUrlOrder ==
  artifact.exists =>
    /\ \A p \in DOMAIN artifact.records : \A q \in DOMAIN artifact.records :
         p < q => /\ TextLeq(C18_Url(artifact.records[p]), C18_Url(artifact.records[q]))
                  /\ C18_Url(artifact.records[p]) # C18_Url(artifact.records[q])
    /\ \A l \in C18_Surviving :
         Cardinality({p \in DOMAIN artifact.records : artifact.records[p].url = l}) = 1
    /\ \A p \in DOMAIN artifact.records : artifact.records[p].url \in C18_Surviving

\* The file holds the records of the first and the third of three links,
\* the fetch of the second having failed.
C18_Witness ==
  /\ artifact.exists
  /\ Len(catalog) = 3
  /\ FailedLinks = {2}
  /\ Len(artifact.records) = 2
  /\ artifact.records[1].url = 1
  /\ artifact.records[2].url = 3

\* The pages 1..n of the call's list, one after the other.
RECURSIVE C19_Pages(_)
C19_Pages(n) ==
  IF n = 0 THEN <<>>
  ELSE C19_Pages(n - 1) \o index(n, call.per_page, call.filtered).paged

\* C19: whatever page and per_page are asked for, the page shown lies in
\* 1..pages; for a list that is not empty the items shown are a run of
\* consecutive items of the list, at least one and at most page_size; and
\* the pages 1..pages, one after the other, give the list.
C19_PaginationCovers ==
  (call.fn = "index" /\ call.done) =>
    LET shown == call.pagination
        total == Len(call.filtered)
    IN  /\ 1 <= shown.page /\ shown.page <= shown.pages
        /\ total > 0 =>
             /\ shown.paged # <<>>
             /\ Len(shown.paged) <= shown.page_size
             /\ \E first \in 1..total :
                  shown.paged = SubSeq(call.filtered, first, first + Len(shown.paged) - 1)
             /\ C19_Pages(shown.pages) = call.filtered
        /\ total = 0 => shown.paged = <<>>

\* A page beyond the last is asked for, with a per_page that is no number:
\* 22 items in pages of 20, and the second page shows the last two.
C19_Witness ==
  /\ call.fn = "index" /\ call.done
  /\ call.page = 5
  /\ call.per_page = <<"x">>
  /\ Len(call.filtered) = 22
  /\ call.pagination.page = 2
  /\ call.pagination.pages = 2
  /\ call.pagination.paged = <<21, 22>>

=============================================================================
